---------------------------- MODULE Spec2Model ----------------------------
(***************************************************************************)
(* A model of src/app.py, the IITM playlist search application:            *)
(*   - fetch_course_catalog: the catalog filter over scraped playlists,    *)
(*   - index_course: the per-course indexer over scraped video entries,    *)
(*   - the Streamlit script: sidebar (catalog, selector, Load button) and  *)
(*     main area (query against the session's active collection), run      *)
(*     once per user interaction, by several browser sessions that share   *)
(*     the process-wide chromadb client and catalog cache.                 *)
(*                                                                         *)
(* Python strings whose characters matter (playlist titles, which are      *)
(* lower-cased, searched for substrings and sorted) are sequences of       *)
(* one-character strings.  Python values that may be None are records      *)
(* [k |-> "none" | "str", s |-> <characters>].  A Python dict with         *)
(* optional keys is a TLA+ function whose DOMAIN is the set of its keys.   *)
(***************************************************************************)
EXTENDS Integers, Sequences, FiniteSets, TLC

VARIABLES
    \* ---- one call of fetch_course_catalog (lines 48-75)
    info,            \* what ydl.extract_info returned for the channel
    clean_catalog,   \* the value the call returned (ordered items of the dict)
    cat_pc,          \* "call" before the call, "returned" after it
    \* ---- one call of index_course's loop (lines 91-109)
    videos,          \* the raw video entries of the playlist
    vi,              \* position of the for loop in videos (next entry to visit)
    documents,       \* list of titles
    metadatas,       \* list of {"video_id", "title"} dicts
    ids,             \* list of video ids
    embeddings,      \* list of vectors, once model.encode has run
    idx_pc,          \* "loop", then "added" (line 108) or "empty" (line 109)
    idx_ret,         \* the returned count (0 with the None collection)
    \* ---- the application: process-wide state and per-session state
    cache,           \* st.cache_data entry of fetch_course_catalog
    client,          \* the cached chromadb client: name -> collection
    session_state,   \* st.session_state of each session
    widget,          \* widget state of each session: selectbox, text_input
    pc,              \* where each session's script run is
    collection,      \* index_course's local `collection` of each session
    view             \* what each session's last script run rendered

catVars == <<info, clean_catalog, cat_pc>>
idxVars == <<videos, vi, documents, metadatas, ids, embeddings, idx_pc, idx_ret>>
appVars == <<cache, client, session_state, widget, pc, collection, view>>
vars == <<catVars, idxVars, appVars>>

-----------------------------------------------------------------------------
(* Bounds of the model *)

\* longest channel listing handed to the catalog filter
MaxEntries == 3
\* longest playlist handed to the indexer loop
MaxVideos == 3

-----------------------------------------------------------------------------
(* Python values *)

PyNone == [k |-> "none", s |-> <<>>]
PyStr(s) == [k |-> "str", s |-> s]

\* bool(v) of a value that is None or a str
Truthy(v) == v.k = "str" /\ v.s # <<>>

\* d.get(key, default)
DictGet(d, key, default) == IF key \in DOMAIN d THEN d[key] ELSE default

-----------------------------------------------------------------------------
(* Characters: code points and str.lower() over the ASCII range used *)

UpperCase == <<"A","B","C","D","E","F","G","H","I","J","K","L","M",
               "N","O","P","Q","R","S","T","U","V","W","X","Y","Z">>
LowerCase == <<"a","b","c","d","e","f","g","h","i","j","k","l","m",
               "n","o","p","q","r","s","t","u","v","w","x","y","z">>
Digits == <<"0","1","2","3","4","5","6","7","8","9">>

IndexIn(c, table) == CHOOSE i \in 1..Len(table) : table[i] = c
IsIn(c, table) == \E i \in 1..Len(table) : table[i] = c

\* ord(c)
CodePoint(c) ==
    IF IsIn(c, UpperCase) THEN 64 + IndexIn(c, UpperCase)
    ELSE IF IsIn(c, LowerCase) THEN 96 + IndexIn(c, LowerCase)
    ELSE IF IsIn(c, Digits) THEN 47 + IndexIn(c, Digits)
    ELSE IF c = " " THEN 32
    ELSE IF c = ":" THEN 58
    ELSE IF c = "[" THEN 91
    ELSE IF c = "]" THEN 93
    ELSE 0

LowerChar(c) == IF IsIn(c, UpperCase) THEN LowerCase[IndexIn(c, UpperCase)] ELSE c

\* s.lower()
Lower(s) == [i \in 1..Len(s) |-> LowerChar(s[i])]

\* needle in hay (substring test of two str)
Contains(hay, needle) ==
    \E i \in 0..(Len(hay) - Len(needle)) :
        SubSeq(hay, i + 1, i + Len(needle)) = needle

\* a < b for two str: lexicographic by code point
StrLess(a, b) ==
    \E i \in 1..(Len(a) + 1) :
        /\ i <= Len(b)
        /\ \A j \in 1..(i - 1) : a[j] = b[j]
        /\ (i = Len(a) + 1 \/ CodePoint(a[i]) < CodePoint(b[i]))

-----------------------------------------------------------------------------
(* fetch_course_catalog, lines 48-75 *)

junk_terms == <<
    <<"s","h","o","r","t","s">>,
    <<"t","e","s","t","i","m","o","n","i","a","l">>,
    <<"w","e","b","i","n","a","r">>,
    <<"e","v","e","n","t">>,
    <<"h","a","c","k","a","t","h","o","n">>,
    <<"p","r","o","m","o">>,
    <<"t","e","a","s","e","r">>,
    <<"l","i","v","e"," ","s","e","s","s","i","o","n">> >>

Unknown == <<"U","n","k","n","o","w","n">>

\* line 72 as written with str.lower() left out: a case-sensitive match
KeepEntryCaseSensitive(title, url) ==
    /\ Truthy(title)
    /\ Truthy(url)
    /\ ~ \E t \in 1..Len(junk_terms) : Contains(title.s, junk_terms[t])

\* line 72: title and url and not any(term in title.lower() for term in junk_terms)
KeepEntry(title, url) ==
    /\ Truthy(title)
    /\ Truthy(url)
    /\ ~ \E t \in 1..Len(junk_terms) : Contains(Lower(title.s), junk_terms[t])

\* d[key] = value on a dict kept as its ordered items: an existing key keeps
\* its place and takes the new value, a new key is appended
DictSet(d, key, value) ==
    IF \E i \in 1..Len(d) : d[i][1] = key
    THEN [i \in 1..Len(d) |-> IF d[i][1] = key THEN <<key, value>> ELSE d[i]]
    ELSE Append(d, <<key, value>>)

\* lines 69-73: the for loop over raw_entries, from the dict built so far
RECURSIVE FilterLoop(_, _)
FilterLoop(raw_entries, catalog) ==
    IF raw_entries = <<>> THEN catalog
    ELSE LET entry == Head(raw_entries)
             title == DictGet(entry, "title", PyStr(Unknown))
             url   == DictGet(entry, "url", PyNone)
         IN  FilterLoop(Tail(raw_entries),
                        IF KeepEntry(title, url)
                        THEN DictSet(catalog, title.s, url.s)
                        ELSE catalog)

\* the place of item in an ascending list of items, compared by key (the
\* keys of a dict are distinct, so the (title, url) tuples order by title)
RECURSIVE InsertSorted(_, _)
InsertSorted(item, sorted) ==
    IF sorted = <<>> THEN <<item>>
    ELSE IF StrLess(item[1], Head(sorted)[1]) THEN <<item>> \o sorted
    ELSE <<Head(sorted)>> \o InsertSorted(item, Tail(sorted))

\* line 75 with the sort left out: dict(clean_catalog.items())
SortedItemsUnsorted(items) == items

\* line 75: dict(sorted(clean_catalog.items()))
RECURSIVE SortedItems(_)
SortedItems(items) ==
    IF items = <<>> THEN <<>>
    ELSE InsertSorted(items[Len(items)], SortedItems(SubSeq(items, 1, Len(items) - 1)))

\* lines 58-75.  inf is the outcome of ydl.extract_info: it raised
\* (k = "raise"), returned None (k = "none", so info.get raises inside the
\* try) or returned a dict with entries (k = "ok")
fetch_course_catalog(inf) ==
    IF inf.k # "ok" THEN <<>>
    ELSE SortedItems(FilterLoop(inf.entries, <<>>))

-----------------------------------------------------------------------------
(* index_course, lines 91-109: the loop over the scraped video entries *)

PrivateVideo == <<"[","P","r","i","v","a","t","e"," ","v","i","d","e","o","]">>
DeletedVideo == <<"[","D","e","l","e","t","e","d"," ","v","i","d","e","o","]">>
GradientDescent == <<"G","r","a","d","i","e","n","t"," ","D","e","s","c","e","n","t">>
HypothesisTesting == <<"H","y","p","o","t","h","e","s","i","s"," ","T","e","s","t","i","n","g">>
Cooking == <<"c","o","o","k","i","n","g">>

\* an entry yt-dlp could not extract (None under ignoreerrors): falsy, like {}
NoVideo == <<>>

\* lines 95-103 with the private/deleted test applied to the title lists
\* only: the id of a private or deleted video is still appended
LoopBodyIdOfSkipped(lists, vid) ==
    IF DOMAIN vid # {} /\ Truthy(DictGet(vid, "title", PyNone))
    THEN LET title  == vid["title"].s
             vid_id == vid["id"]
         IN  IF title \notin {PrivateVideo, DeletedVideo}
             THEN [documents |-> Append(lists.documents, title),
                   metadatas |-> Append(lists.metadatas,
                                        [video_id |-> vid_id, title |-> title]),
                   ids       |-> Append(lists.ids, vid_id)]
             ELSE [lists EXCEPT !.ids = Append(lists.ids, vid_id)]
    ELSE lists

\* lines 95-103 with the deleted marker missing from the skip list
LoopBodyKeepsDeleted(lists, vid) ==
    IF DOMAIN vid # {} /\ Truthy(DictGet(vid, "title", PyNone))
    THEN LET title  == vid["title"].s
             vid_id == vid["id"]
         IN  IF title \notin {PrivateVideo}
             THEN [documents |-> Append(lists.documents, title),
                   metadatas |-> Append(lists.metadatas,
                                        [video_id |-> vid_id, title |-> title]),
                   ids       |-> Append(lists.ids, vid_id)]
             ELSE lists
    ELSE lists

\* lines 95-103: one iteration of `for vid in videos`, on the three lists
LoopBody(lists, vid) ==
    IF DOMAIN vid # {} /\ Truthy(DictGet(vid, "title", PyNone))
    THEN LET title  == vid["title"].s
             vid_id == vid["id"]
         IN  IF title \notin {PrivateVideo, DeletedVideo}
             THEN [documents |-> Append(lists.documents, title),
                   metadatas |-> Append(lists.metadatas,
                                        [video_id |-> vid_id, title |-> title]),
                   ids       |-> Append(lists.ids, vid_id)]
             ELSE lists
    ELSE lists

\* lines 91-93
EmptyLists == [documents |-> <<>>, metadatas |-> <<>>, ids |-> <<>>]

\* lines 95-103: the whole loop
RECURSIVE RunLoop(_, _)
RunLoop(vids, lists) ==
    IF vids = <<>> THEN lists
    ELSE RunLoop(Tail(vids), LoopBody(lists, Head(vids)))

\* model.encode(text) of the cached SentenceTransformer (lines 35-37): a fixed
\* map from text to a unit vector, here in three dimensions and scaled by 10
Encode(text) ==
    IF text = GradientDescent THEN <<10, 0, 0>>
    ELSE IF text = HypothesisTesting THEN <<6, 8, 0>>
    ELSE <<0, 0, 10>>

\* line 106: model.encode(documents).tolist(), one batch call, one vector
\* per document in the order of the documents
EncodeBatch(docs) == [i \in 1..Len(docs) |-> Encode(docs[i])]

-----------------------------------------------------------------------------
(* The chromadb client and the collections it holds *)

\* line 80
collection_name == "active_course"

\* line 150: n_results
K == 10

Sessions == {"s1", "s2"}

\* a Collection object is a handle on (name, id); None is NoHandle
NoHandle == [name |-> "", id |-> <<>>]

\* the handle still refers to a collection the client holds
Live(cl, h) == h.name \in DOMAIN cl /\ cl[h.name].id = h.id

\* lines 81-82: delete_collection inside try/except: a missing collection
\* raises and is passed over
delete_collection(cl, name) == [n \in DOMAIN cl \ {name} |-> cl[n]]

\* the identity (uuid) of a collection created in session s: one that no
\* handle carries.  Handles on a collection live only in the session that
\* created it, and of those only st.session_state.active_collection outlives
\* a script run, so <<s, 1>> and <<s, 2>> taken in turn are always new
FreshId(s, ss) ==
    IF "active_collection" \in DOMAIN ss /\ ss["active_collection"].id = <<s, 1>>
    THEN <<s, 2>>
    ELSE <<s, 1>>

\* line 83: the collection as created, holding nothing
NewCollection(id) ==
    [id |-> id, documents |-> <<>>, embeddings |-> <<>>,
     metadatas |-> <<>>, ids |-> <<>>]

\* squared L2 distance, the default space of a collection
Distance(a, b) ==
    (a[1] - b[1]) * (a[1] - b[1]) + (a[2] - b[2]) * (a[2] - b[2])
      + (a[3] - b[3]) * (a[3] - b[3])

\* positions of the stored embeddings by ascending distance to qvec, the
\* earlier added first among equals
RECURSIVE Ranked(_, _, _)
Ranked(embs, qvec, left) ==
    IF left = {} THEN <<>>
    ELSE LET best == CHOOSE i \in left :
                        \A j \in left :
                            \/ Distance(embs[i], qvec) < Distance(embs[j], qvec)
                            \/ /\ Distance(embs[i], qvec) = Distance(embs[j], qvec)
                               /\ i <= j
         IN  <<best>> \o Ranked(embs, qvec, left \ {best})

\* line 150: collection.query(query_embeddings=[qvec], n_results=n): one
\* result list per query embedding, each of at most n nearest items
Query(col, qvec, n) ==
    LET order == Ranked(col.embeddings, qvec, 1..Len(col.embeddings))
        top   == SubSeq(order, 1, IF Len(order) < n THEN Len(order) ELSE n)
    IN  [documents |-> << [i \in 1..Len(top) |-> col.documents[top[i]]] >>,
         metadatas |-> << [i \in 1..Len(top) |-> col.metadatas[top[i]]] >>]

\* line 107: collection.add(documents, embeddings, metadatas, ids) through
\* the handle h
collection_add(cl, h, lists, embs) ==
    [cl EXCEPT ![h.name] =
        [id         |-> h.id,
         documents  |-> lists.documents,
         embeddings |-> embs,
         metadatas  |-> lists.metadatas,
         ids        |-> lists.ids]]

-----------------------------------------------------------------------------
(* What the scraper returns: the channel's playlists and their videos *)

Week3Webinar == <<"W","e","e","k"," ","3"," ","W","e","b","i","n","a","r">>
ShortsRecap == <<"S","H","O","R","T","S",":"," ","r","e","c","a","p">>
Week3Lecture == <<"W","e","e","k"," ","3"," ","L","e","c","t","u","r","e">>
Maths1 == <<"M","a","t","h","s"," ","1">>
Stats1 == <<"S","t","a","t","s"," ","1">>
maths2 == <<"m","a","t","h","s"," ","2">>
OldCourse == <<"O","l","d"," ","C","o","u","r","s","e">>

U1 == <<"u","1">>
U2 == <<"u","2">>
U3 == <<"u","3">>
V1 == <<"v","1">>
V2 == <<"v","2">>
V3 == <<"v","3">>

\* outcomes of ydl.extract_info (lines 60, 88): it raises, it returns None
\* (ignoreerrors), or it returns a dict whose 'entries' are given
Raised == [k |-> "raise", entries |-> <<>>]
ReturnedNone == [k |-> "none", entries |-> <<>>]
Returned(entries) == [k |-> "ok", entries |-> entries]

\* the channel's playlists tab as the application's sessions see it
Channel ==
    << [title |-> PyStr(Stats1), url |-> PyStr(U2)],
       [title |-> PyStr(Week3Webinar), url |-> PyStr(U1)],
       [title |-> PyStr(OldCourse), url |-> PyStr(U3)],
       [title |-> PyStr(Maths1), url |-> PyStr(U1)] >>

UpstreamOutcomes == {Raised, ReturnedNone, Returned(<<>>), Returned(Channel)}

\* the videos of each playlist
Playlist(url) ==
    IF url = U1
    THEN << [id |-> V1, title |-> PyStr(GradientDescent)],
            [id |-> V2, title |-> PyStr(PrivateVideo)],
            [id |-> V3, title |-> PyStr(HypothesisTesting)] >>
    ELSE IF url = U2
    THEN << NoVideo, [id |-> V2, title |-> PyStr(HypothesisTesting)] >>
    ELSE << [id |-> V1, title |-> PyStr(DeletedVideo)], [id |-> V3] >>

ScrapeOutcomes(url) == {Raised, ReturnedNone, Returned(Playlist(url))}

\* what the user may type into the text_input
QueryTexts == {GradientDescent, Cooking}

-----------------------------------------------------------------------------
(* The script, lines 111-170, run top to bottom on every interaction *)

HasKey(cat, key) == \E i \in 1..Len(cat) : cat[i][1] = key
\* cat[key] of a key the dict holds
CatalogGet(cat, key) == cat[CHOOSE i \in 1..Len(cat) : cat[i][1] = key][2]

\* line 122: the selectbox of a session that has not chosen yet shows the
\* first option, and None when there are no options
DefaultSelection(cat) == IF cat = <<>> THEN PyNone ELSE PyStr(cat[1][1])

\* lines 142-170: the main area, for the session state ss, the widgets w and
\* the client cl; an exception ends the script run
MainArea(ss, w, cl) ==
    IF "active_collection" \notin DOMAIN ss
    THEN [main |-> "prompt", cards |-> <<>>, exception |-> "none"]
    ELSE IF w.query = <<>>
    THEN [main |-> "search", cards |-> <<>>, exception |-> "none"]
    ELSE IF ~ Live(cl, ss["active_collection"])
    THEN [main |-> "search", cards |-> <<>>, exception |-> "CollectionNotFound"]
    ELSE LET h       == ss["active_collection"]
             results == Query(cl[h.name], Encode(w.query), K)
         IN  IF results.documents # <<>>
             THEN [main |-> "results",
                   cards |-> [i \in 1..Len(results.documents[1]) |->
                                 [title    |-> results.documents[1][i],
                                  video_id |-> results.metadatas[1][i].video_id]],
                   exception |-> "none"]
             ELSE [main |-> "no_matches", cards |-> <<>>, exception |-> "none"]

Rendered(sidebar, area) ==
    [sidebar |-> sidebar, main |-> area.main,
     cards |-> area.cards, exception |-> area.exception]

\* a script run that an unhandled exception ended before the main area
Aborted(exception) ==
    [sidebar |-> "none", main |-> "none",
     cards |-> <<>>, exception |-> exception]

NotRun ==
    [sidebar |-> "none", main |-> "none",
     cards |-> <<>>, exception |-> "none"]

AppInit ==
    /\ cache = [valid |-> FALSE, value |-> <<>>]
    /\ client = <<>>
    /\ session_state = [s \in Sessions |-> <<>>]
    /\ widget = [s \in Sessions |-> [selected |-> PyNone, query |-> <<>>]]
    /\ pc = [s \in Sessions |-> "new"]
    /\ collection = [s \in Sessions |-> NoHandle]
    /\ view = [s \in Sessions |-> NotRun]

\* a browser opens the page: the first script run of a session (lines
\* 116-122, then the main area).  fetch_course_catalog is memoized for the
\* process (line 47): the scrape runs only when no entry is cached.  The
\* runs modelled fall within one ttl window of the cache (3600 s)
Connect(s) ==
    /\ pc[s] = "new"
    /\ \E inf \in UpstreamOutcomes :
          LET value == IF cache.valid THEN cache.value
                       ELSE fetch_course_catalog(inf)
              ss    == ("catalog" :> value) @@ session_state[s]
          IN  /\ cache' = [valid |-> TRUE, value |-> value]
              /\ session_state' = [session_state EXCEPT ![s] = ss]
              /\ widget' = [widget EXCEPT ![s].selected = DefaultSelection(value)]
              /\ view' = [view EXCEPT ![s] =
                            Rendered("loaded", MainArea(ss, widget[s], client))]
    /\ pc' = [pc EXCEPT ![s] = "idle"]
    /\ UNCHANGED <<client, collection, catVars, idxVars>>

\* the user picks another course in the selectbox (line 122); the script
\* reruns with the button not pressed
SelectCourse(s) ==
    /\ pc[s] = "idle"
    /\ \E i \in 1..Len(session_state[s]["catalog"]) :
          LET title == PyStr(session_state[s]["catalog"][i][1])
              w     == [widget[s] EXCEPT !.selected = title]
          IN  /\ title # widget[s].selected
              /\ widget' = [widget EXCEPT ![s] = w]
              /\ view' = [view EXCEPT ![s] =
                            Rendered("none",
                                     MainArea(session_state[s], w, client))]
    /\ UNCHANGED <<cache, client, session_state, pc, collection, catVars, idxVars>>

\* the session's page shows the text_input: its last script run reached
\* line 145
ShowsTextInput(v) == v.main \in {"search", "results", "no_matches"}

\* the user submits the text_input (line 145), which the page shows only
\* once a course is loaded; the script reruns
EnterQuery(s) ==
    /\ pc[s] = "idle"
    /\ ShowsTextInput(view[s])
    /\ \E q \in QueryTexts \cup {<<>>} :
          LET w == [widget[s] EXCEPT !.query = q]
          IN  /\ q # widget[s].query
              /\ widget' = [widget EXCEPT ![s] = w]
              /\ view' = [view EXCEPT ![s] =
                            Rendered("none",
                                     MainArea(session_state[s], w, client))]
    /\ UNCHANGED <<cache, client, session_state, pc, collection, catVars, idxVars>>

\* the user presses "2. Load Course Videos": line 126, where a selection
\* that is no key of the catalog (None) raises KeyError, then index_course
\* up to its delete_collection (lines 80-82)
PressLoad(s) ==
    /\ pc[s] = "idle"
    /\ IF widget[s].selected.k = "str"
          /\ HasKey(session_state[s]["catalog"], widget[s].selected.s)
       THEN /\ client' = delete_collection(client, collection_name)
            /\ pc' = [pc EXCEPT ![s] = "create"]
            /\ UNCHANGED view
       ELSE /\ view' = [view EXCEPT ![s] = Aborted("KeyError")]
            /\ UNCHANGED <<client, pc>>
    /\ UNCHANGED <<cache, session_state, widget, collection, catVars, idxVars>>

\* line 83: create_collection, which raises when the client already holds a
\* collection of that name
LoadCreate(s) ==
    /\ pc[s] = "create"
    /\ IF collection_name \in DOMAIN client
       THEN /\ view' = [view EXCEPT ![s] = Aborted("CollectionExists")]
            /\ UNCHANGED <<client, collection>>
            /\ pc' = [pc EXCEPT ![s] = "idle"]
       ELSE LET id == FreshId(s, session_state[s])
            IN  /\ client' = (collection_name :> NewCollection(id)) @@ client
                /\ collection' = [collection EXCEPT ![s] =
                                    [name |-> collection_name, id |-> id]]
                /\ pc' = [pc EXCEPT ![s] = "index"]
                /\ UNCHANGED view
    /\ UNCHANGED <<cache, session_state, widget, catVars, idxVars>>

\* the main area has not run yet in this script run
MainPending == [main |-> "none", cards |-> <<>>, exception |-> "none"]

\* lines 85-109 (the scrape, the loop, encode and collection.add) and the
\* handler's lines 129-134; the script goes on to the main area unless an
\* exception ended it
LoadIndex(s) ==
    /\ pc[s] = "index"
    /\ \E out \in ScrapeOutcomes(CatalogGet(session_state[s]["catalog"],
                                            widget[s].selected.s)) :
          LET lists == RunLoop(out.entries, EmptyLists)
              h     == collection[s]
              ss    == ("active_collection" :> h)
                         @@ ("course_name" :> widget[s].selected.s)
                         @@ session_state[s]
          IN  IF out.k = "raise"
              THEN /\ view' = [view EXCEPT ![s] = Aborted("DownloadError")]
                   /\ pc' = [pc EXCEPT ![s] = "idle"]
                   /\ UNCHANGED <<client, session_state>>
              ELSE IF out.k = "none"
              THEN /\ view' = [view EXCEPT ![s] = Aborted("AttributeError")]
                   /\ pc' = [pc EXCEPT ![s] = "idle"]
                   /\ UNCHANGED <<client, session_state>>
              ELSE IF lists.documents = <<>>
              THEN /\ view' = [view EXCEPT ![s] = Rendered("no_videos", MainPending)]
                   /\ pc' = [pc EXCEPT ![s] = "main"]
                   /\ UNCHANGED <<client, session_state>>
              ELSE IF ~ Live(client, h)
              THEN /\ view' = [view EXCEPT ![s] = Aborted("CollectionNotFound")]
                   /\ pc' = [pc EXCEPT ![s] = "idle"]
                   /\ UNCHANGED <<client, session_state>>
              ELSE /\ client' = collection_add(client, h, lists,
                                               EncodeBatch(lists.documents))
                   /\ session_state' = [session_state EXCEPT ![s] = ss]
                   /\ view' = [view EXCEPT ![s] = Rendered("ready", MainPending)]
                   /\ pc' = [pc EXCEPT ![s] = "main"]
    /\ collection' = [collection EXCEPT ![s] = NoHandle]
    /\ UNCHANGED <<cache, widget, catVars, idxVars>>

\* lines 136-170 of the script run that handled the Load: the main area,
\* with the query the text_input holds
LoadMain(s) ==
    /\ pc[s] = "main"
    /\ view' = [view EXCEPT ![s] =
                  Rendered(view[s].sidebar,
                           MainArea(session_state[s], widget[s], client))]
    /\ pc' = [pc EXCEPT ![s] = "idle"]
    /\ UNCHANGED <<cache, client, session_state, widget, collection,
                   catVars, idxVars>>

-----------------------------------------------------------------------------
(* fetch_course_catalog applied to every bounded channel listing *)

SeqsUpTo(S, n) == UNION {[1..k -> S] : k \in 0..n}

\* raw playlist entries: with and without title and url, denylisted in
\* either case, titles shared by two urls, titles of either case
RawEntryPool ==
    { [title |-> PyStr(Week3Webinar), url |-> PyStr(U1)],
      [title |-> PyStr(ShortsRecap), url |-> PyStr(U2)],
      [title |-> PyStr(Week3Lecture), url |-> PyStr(U1)],
      [title |-> PyStr(Week3Lecture), url |-> PyStr(U2)],
      [title |-> PyStr(maths2), url |-> PyStr(U2)],
      [title |-> PyStr(Maths1)],
      [title |-> PyNone, url |-> PyStr(U1)],
      [title |-> PyStr(<<>>), url |-> PyStr(U2)],
      [url |-> PyStr(U3)] }

CatInit ==
    /\ info \in {Raised, ReturnedNone}
                  \cup {Returned(e) : e \in SeqsUpTo(RawEntryPool, MaxEntries)}
    /\ clean_catalog = <<>>
    /\ cat_pc = "call"

CatIdle ==
    /\ info = Returned(<<>>)
    /\ clean_catalog = <<>>
    /\ cat_pc = "call"

\* the call, lines 58-75
FetchCourseCatalog ==
    /\ cat_pc = "call"
    /\ clean_catalog' = fetch_course_catalog(info)
    /\ cat_pc' = "returned"
    /\ UNCHANGED <<info, idxVars, appVars>>

-----------------------------------------------------------------------------
(* index_course's loop applied to every bounded playlist *)

VideoIds == {V1, V2, V3}

VideoTitleValues ==
    {PyNone, PyStr(<<>>), PyStr(PrivateVideo), PyStr(DeletedVideo),
     PyStr(GradientDescent), PyStr(HypothesisTesting)}

\* raw video entries: None, an entry without title, entries with a title
\* that is None, empty, a private/deleted marker or a real title
VideoEntryPool ==
    {NoVideo} \cup {[id |-> i] : i \in VideoIds}
              \cup {[id |-> i, title |-> t] : i \in VideoIds, t \in VideoTitleValues}

\* a playlist lists each video once
DistinctIds(vs) ==
    \A i, j \in 1..Len(vs) :
        (i # j /\ DOMAIN vs[i] # {} /\ DOMAIN vs[j] # {}) => vs[i]["id"] # vs[j]["id"]

IdxInit ==
    /\ videos \in {vs \in SeqsUpTo(VideoEntryPool, MaxVideos) : DistinctIds(vs)}
    /\ vi = 1
    /\ documents = <<>>
    /\ metadatas = <<>>
    /\ ids = <<>>
    /\ embeddings = <<>>
    /\ idx_pc = "loop"
    /\ idx_ret = 0

\* index_course is called in one session and has created its collection
\* (line 83)
IdxCaller == "s1"
IdxHandle == [name |-> collection_name, id |-> <<IdxCaller, 1>>]

IdxApp ==
    /\ cache = [valid |-> FALSE, value |-> <<>>]
    /\ client = (collection_name :> NewCollection(IdxHandle.id))
    /\ session_state = [s \in Sessions |-> <<>>]
    /\ widget = [s \in Sessions |-> [selected |-> PyNone, query |-> <<>>]]
    /\ pc = [s \in Sessions |-> "new"]
    /\ collection = [s \in Sessions |-> IF s = IdxCaller THEN IdxHandle ELSE NoHandle]
    /\ view = [s \in Sessions |-> NotRun]

IdxIdle ==
    /\ videos = <<>>
    /\ vi = 1
    /\ documents = <<>>
    /\ metadatas = <<>>
    /\ ids = <<>>
    /\ embeddings = <<>>
    /\ idx_pc = "loop"
    /\ idx_ret = 0

\* lines 95-103: one iteration of the for loop
IdxLoopStep ==
    /\ idx_pc = "loop"
    /\ vi <= Len(videos)
    /\ LET lists == LoopBody([documents |-> documents, metadatas |-> metadatas,
                              ids |-> ids], videos[vi])
       IN  /\ documents' = lists.documents
           /\ metadatas' = lists.metadatas
           /\ ids' = lists.ids
    /\ vi' = vi + 1
    /\ UNCHANGED <<videos, embeddings, idx_pc, idx_ret, catVars, appVars>>

\* lines 105-108: documents is not empty; the titles are encoded in one
\* batch and the four lists go to collection.add
IdxEncodeAdd ==
    /\ idx_pc = "loop"
    /\ vi > Len(videos)
    /\ documents # <<>>
    /\ embeddings' = EncodeBatch(documents)
    /\ client' = collection_add(client, collection[IdxCaller],
                                [documents |-> documents, metadatas |-> metadatas,
                                 ids |-> ids],
                                EncodeBatch(documents))
    /\ idx_ret' = Len(documents)
    /\ idx_pc' = "added"
    /\ UNCHANGED <<videos, vi, documents, metadatas, ids, catVars,
                   cache, session_state, widget, pc, collection, view>>

\* line 109: return 0, None
IdxReturnEmpty ==
    /\ idx_pc = "loop"
    /\ vi > Len(videos)
    /\ documents = <<>>
    /\ idx_ret' = 0
    /\ idx_pc' = "empty"
    /\ UNCHANGED <<videos, vi, documents, metadatas, ids, embeddings, catVars, appVars>>

-----------------------------------------------------------------------------
(* Specifications *)

\* the application: sessions connect, select, query and load
Init == AppInit /\ CatIdle /\ IdxIdle

Next ==
    \/ \E s \in Sessions : Connect(s)
    \/ \E s \in Sessions : SelectCourse(s)
    \/ \E s \in Sessions : EnterQuery(s)
    \/ \E s \in Sessions : PressLoad(s)
    \/ \E s \in Sessions : LoadCreate(s)
    \/ \E s \in Sessions : LoadIndex(s)
    \/ \E s \in Sessions : LoadMain(s)

Spec == Init /\ [][Next]_vars

\* one call of fetch_course_catalog on each bounded listing
InitCatalog == CatInit /\ IdxIdle /\ AppInit

NextCatalog == FetchCourseCatalog

SpecCatalog == InitCatalog /\ [][NextCatalog]_vars

\* one run of index_course's loop on each bounded playlist
InitIndex == IdxInit /\ CatIdle /\ IdxApp

NextIndex == IdxLoopStep \/ IdxEncodeAdd \/ IdxReturnEmpty

SpecIndex == InitIndex /\ [][NextIndex]_vars

-----------------------------------------------------------------------------
(* Properties of fetch_course_catalog, checked under SpecCatalog *)

CatalogReturned == cat_pc = "returned"

TitleIs(e, t) == "title" \in DOMAIN e /\ e["title"] = PyStr(t)
HasUrl(e) == "url" \in DOMAIN e /\ Truthy(e["url"])
Listed(t) == \E i \in 1..Len(info.entries) :
                 TitleIs(info.entries[i], t) /\ HasUrl(info.entries[i])

\* C1: no title of the returned catalog contains, once lower-cased, one of
\* the denylisted substrings; 'Week 3 Webinar' and 'SHORTS: recap' are
\* never keys, and 'Week 3 Lecture' listed with a url is a key
C1_NoDenylistedTitle ==
    CatalogReturned =>
        /\ \A i \in 1..Len(clean_catalog) : \A t \in 1..Len(junk_terms) :
               ~ Contains(Lower(clean_catalog[i][1]), junk_terms[t])
        /\ ~ HasKey(clean_catalog, Week3Webinar)
        /\ ~ HasKey(clean_catalog, ShortsRecap)
        /\ Listed(Week3Lecture) => HasKey(clean_catalog, Week3Lecture)

\* the filter has run on a listing that holds both denylisted titles and
\* the lecture, and kept the lecture alone
C1_Witness ==
    /\ CatalogReturned
    /\ Listed(Week3Webinar)
    /\ Listed(ShortsRecap)
    /\ Listed(Week3Lecture)
    /\ Len(clean_catalog) = 1
    /\ clean_catalog[1][1] = Week3Lecture

\* the entry carries a usable title and a usable url
HasTitleAndUrl(e) == "title" \in DOMAIN e /\ Truthy(e["title"]) /\ HasUrl(e)

\* C2: an entry that lacks a title or lacks a url contributes no key: the
\* returned catalog is the one the listing gives with those entries removed
C2_LackingEntryContributesNothing ==
    CatalogReturned =>
        clean_catalog =
            fetch_course_catalog([info EXCEPT !.entries = SelectSeq(@, HasTitleAndUrl)])

\* the keys ascend strictly
Ascending(cat) ==
    \A i, j \in 1..Len(cat) : i < j => StrLess(cat[i][1], cat[j][1])

Reorderings(seq) ==
    {[i \in 1..Len(seq) |-> seq[p[i]]] : p \in Permutations(1..Len(seq))}

\* the key and the url line 73 stores for an entry the filter keeps
KeyOf(e) == DictGet(e, "title", PyStr(Unknown))
UrlOf(e) == DictGet(e, "url", PyNone)

\* no two entries the filter keeps under one key carry different urls
NoTitleCollision(entries) ==
    \A i, j \in 1..Len(entries) :
        ( /\ KeepEntry(KeyOf(entries[i]), UrlOf(entries[i]))
          /\ KeepEntry(KeyOf(entries[j]), UrlOf(entries[j]))
          /\ KeyOf(entries[i]) = KeyOf(entries[j]) )
        => UrlOf(entries[i]) = UrlOf(entries[j])

\* C3 as stated: the returned catalog ascends by title, and every
\* reordering of the listing returns the same mapping, entries that share a
\* title under different urls included
C3_AnyOrderSameMapping ==
    CatalogReturned =>
        /\ Ascending(clean_catalog)
        /\ \A p \in Reorderings(info.entries) :
               fetch_course_catalog([info EXCEPT !.entries = p]) = clean_catalog

\* C3 as amended: the returned catalog ascends by title, and every
\* reordering of a listing in which no two kept entries share a key under
\* different urls returns the same mapping
C3_SortedAndOrderFreeWithoutCollision ==
    CatalogReturned =>
        /\ Ascending(clean_catalog)
        /\ NoTitleCollision(info.entries) =>
               \A p \in Reorderings(info.entries) :
                   fetch_course_catalog([info EXCEPT !.entries = p]) = clean_catalog

\* a listing without collision whose kept entries arrive out of order, and
\* twice under one title with one url: the sort has moved them
C3_Witness ==
    /\ CatalogReturned
    /\ info.k = "ok"
    /\ NoTitleCollision(info.entries)
    /\ Len(clean_catalog) = 2
    /\ Len(info.entries) = 3
    /\ FilterLoop(info.entries, <<>>) # clean_catalog

-----------------------------------------------------------------------------
(* Properties of index_course's loop, checked under SpecIndex *)

\* an entry with a non-empty title that is neither marker
Usable(v) ==
    /\ "title" \in DOMAIN v
    /\ v["title"].k = "str"
    /\ v["title"].s \notin {<<>>, PrivateVideo, DeletedVideo}

\* the entries the loop has visited
Visited == SubSeq(videos, 1, vi - 1)

\* C8: the indexed records are exactly the visited entries that have a
\* non-empty title other than '[Private video]' and '[Deleted video]', in
\* their order in the playlist
C8_ExactlyUsableInOrder ==
    LET kept == SelectSeq(Visited, Usable)
    IN  /\ documents = [i \in 1..Len(kept) |-> kept[i]["title"].s]
        /\ ids = [i \in 1..Len(kept) |-> kept[i]["id"]]
        /\ metadatas = [i \in 1..Len(kept) |->
                           [video_id |-> kept[i]["id"], title |-> kept[i]["title"].s]]

\* a playlist of a deleted video between two usable ones has been indexed
C8_Witness ==
    /\ idx_pc = "added"
    /\ Len(videos) = 3
    /\ "title" \in DOMAIN videos[2]
    /\ videos[2]["title"] = PyStr(DeletedVideo)
    /\ documents = <<GradientDescent, HypothesisTesting>>
    /\ idx_ret = 2

\* C9: documents, metadatas and ids have one length at every point of the
\* loop and position i of each is the same visited video; once encoded,
\* embeddings has that length too and embeddings[i] is the embedding of
\* documents[i], and the collection holds these four lists as they are
C9_ParallelLists ==
    /\ Len(documents) = Len(metadatas)
    /\ Len(documents) = Len(ids)
    /\ \A i \in 1..Len(documents) :
          /\ ids[i] = metadatas[i].video_id
          /\ documents[i] = metadatas[i].title
          /\ \E j \in 1..(vi - 1) :
                /\ "title" \in DOMAIN videos[j]
                /\ videos[j]["id"] = ids[i]
                /\ videos[j]["title"] = PyStr(documents[i])
    /\ IF idx_pc = "added"
       THEN /\ Len(embeddings) = Len(documents)
            /\ \A i \in 1..Len(documents) : embeddings[i] = Encode(documents[i])
            /\ client[collection_name].documents = documents
            /\ client[collection_name].metadatas = metadatas
            /\ client[collection_name].ids = ids
            /\ client[collection_name].embeddings = embeddings
       ELSE /\ embeddings = <<>>
            /\ client[collection_name] = NewCollection(IdxHandle.id)

\* two videos of different titles, a skipped entry before them, encoded
C9_Witness ==
    /\ idx_pc = "added"
    /\ Len(videos) = 3
    /\ ~ Usable(videos[1])
    /\ Len(documents) = 2
    /\ embeddings[1] # embeddings[2]
    /\ Len(client[collection_name].ids) = 2

-----------------------------------------------------------------------------
(* Properties of the application, checked under Spec *)

HasCatalog(s) == "catalog" \in DOMAIN session_state[s]
HasActive(s) == "active_collection" \in DOMAIN session_state[s]

\* C4: with an empty catalog in the session no script run ends in an
\* unhandled exception
C4_EmptyCatalogNeverRaises ==
    \A s \in Sessions :
        (HasCatalog(s) /\ session_state[s]["catalog"] = <<>>)
            => view[s].exception = "none"

\* C5: once a Load has been handled, the session's course is the one that
\* Load was for (the selection), not the one loaded before
C5_LoadReplacesCourse ==
    \A s \in Sessions :
        (pc[s] = "idle" /\ view[s].sidebar \in {"ready", "no_videos"} /\ HasActive(s))
            => session_state[s]["course_name"] = widget[s].selected.s

\* the score floor of the relevance selector: cosine 0.4, on the scale of
\* the dot product of two vectors of length 10
ScoreFloor == 40

Dot(a, b) == a[1] * b[1] + a[2] * b[2] + a[3] * b[3]

\* C6: every displayed item scores above the floor against the query, so a
\* query whose best score is below the floor displays nothing
C6_NothingBelowFloorDisplayed ==
    \A s \in Sessions : \A i \in 1..Len(view[s].cards) :
        Dot(Encode(widget[s].query), Encode(view[s].cards[i].title)) > ScoreFloor

\* C7: a failed playlist scrape (the scraper raising, or returning no info
\* object) never reaches the UI as an unhandled exception
C7_ScrapeFailureRecovered ==
    \A s \in Sessions : view[s].exception \notin {"DownloadError", "AttributeError"}

\* a step in which session s itself does nothing
OthersStep(s) ==
    /\ pc[s] = "idle"
    /\ pc'[s] = "idle"
    /\ session_state'[s] = session_state[s]
    /\ widget'[s] = widget[s]
    /\ view'[s] = view[s]

\* C10: no step of another session deletes, replaces or changes the
\* collection a session's active_collection refers to
C10_OtherSessionsKeepCollection ==
    [][\A s \in Sessions :
          (OthersStep(s) /\ HasActive(s)
             /\ Live(client, session_state[s]["active_collection"]))
          => /\ Live(client', session_state[s]["active_collection"])
             /\ client'[collection_name] = client[collection_name]]_vars

=============================================================================
